---- MODULE Spec2Model ----
(***************************************************************************)
(* worklang: the bytecode compiler (worklang/compiler.py), the module     *)
(* binary format and the stack virtual machine (worklang/tempvm.py).      *)
(*                                                                         *)
(* Strings are sequences of Unicode code points, byte strings are         *)
(* sequences of 0..255.  Python's None is the record PyNone, which is not *)
(* a WLObject.  An uncaught Python exception is recorded in `error`.      *)
(***************************************************************************)
EXTENDS Integers, Sequences, FiniteSets, TLC

VARIABLES
    input,          \* the source program / byte stream the run was given
    modules,        \* VM.modules: name -> WLModule (with its Runnable objects)
    executor_stack, \* VM.executor_stack: each executor is its ctx_stack
    ctxs,           \* heap of RunnableContext objects, indexed by identity
    out,            \* what the builtin print has written, one entry per call
    retval,         \* the value the last ended activation returned
    error,          \* "" or the name of the uncaught exception
    mod,            \* compiler side: the Module object being built / dumped
    issued,         \* compiler side: the push_const calls made, with the index each returned
    stream,         \* the bytes produced by Module.dump
    module_cache,   \* compiler side: Compiler.module_cache, name -> Module
    pc              \* how far the toolchain got: "compiling", "compiled", "dumped",
                    \* "loaded", "running"

vars == <<input, modules, executor_stack, ctxs, out, retval, error, mod, issued, stream,
          module_cache, pc>>

-----------------------------------------------------------------------------
(* Bounds of the model                                                     *)

MaxArgs == 2        \* longest argument list of the probed calls
MaxN == 3           \* largest loop bound n of the while programs
MaxNum == 3         \* largest Number literal of the arithmetic programs
MaxPushes == 4      \* push_const calls per compile in the pool model
MaxCond == 8        \* most operands of a loop condition in the loop programs
MaxBody == 20       \* most statements of a loop body in the loop programs
MaxVarint == 32768  \* the integers encoded are -(MaxVarint + 1) .. MaxVarint

-----------------------------------------------------------------------------
(* Sequence helpers                                                        *)

Range(s) == {s[i] : i \in DOMAIN s}

Min2(a, b) == IF a < b THEN a ELSE b

\* Python slice arr[i:i+n] (i is 0-based, the slice is clipped to the array)
Slice(arr, i, n) ==
    IF i >= Len(arr) \/ n <= 0 THEN <<>>
    ELSE SubSeq(arr, i + 1, Min2(i + n, Len(arr)))

RECURSIVE Join(_, _)
\* sep.join(parts)
Join(parts, sep) ==
    IF parts = <<>> THEN <<>>
    ELSE IF Len(parts) = 1 THEN parts[1]
    ELSE parts[1] \o sep \o Join(Tail(parts), sep)

-----------------------------------------------------------------------------
(* Encoder (compiler.py) and the UTF-8 codec it relies on                  *)

MAGIC == <<87, 107, 108, 103, 0, 1, 2, 3>>

RECURSIVE Utf8Encode(_)
\* str.encode()
Utf8Encode(s) ==
    IF s = <<>> THEN <<>>
    ELSE LET c == Head(s) IN
         (CASE c < 128 -> <<c>>
            [] c >= 128 /\ c < 2048 -> <<192 + (c \div 64), 128 + (c % 64)>>
            [] c >= 2048 /\ c < 65536 ->
                 <<224 + (c \div 4096), 128 + ((c \div 64) % 64), 128 + (c % 64)>>
            [] OTHER ->
                 <<240 + (c \div 262144), 128 + ((c \div 4096) % 64),
                   128 + ((c \div 64) % 64), 128 + (c % 64)>>) \o Utf8Encode(Tail(s))

RECURSIVE Utf8Decode(_)
\* bytes.decode("utf-8"): ok is FALSE where Python raises UnicodeDecodeError
Utf8Decode(b) ==
    IF b = <<>> THEN [ok |-> TRUE, s |-> <<>>]
    ELSE LET c == b[1]
             n == CASE c < 128 -> 1
                    [] c >= 194 /\ c < 224 -> 2
                    [] c >= 224 /\ c < 240 -> 3
                    [] c >= 240 /\ c < 245 -> 4
                    [] OTHER -> 0
             cont(k) == k <= Len(b) /\ b[k] >= 128 /\ b[k] < 192
             cp == CASE n = 1 -> c
                     [] n = 2 -> (c - 192) * 64 + (b[2] - 128)
                     [] n = 3 -> (c - 224) * 4096 + (b[2] - 128) * 64 + (b[3] - 128)
                     [] n = 4 -> (c - 240) * 262144 + (b[2] - 128) * 4096
                                   + (b[3] - 128) * 64 + (b[4] - 128)
             valid == /\ n > 0
                      /\ \A k \in 2..n : cont(k)
                      /\ n = 3 => (cp >= 2048 /\ ~(cp >= 55296 /\ cp <= 57343))
                      /\ n = 4 => (cp >= 65536 /\ cp <= 1114111)
         IN IF ~valid THEN [ok |-> FALSE, s |-> <<>>]
            ELSE LET rest == Utf8Decode(SubSeq(b, n + 1, Len(b))) IN
                 IF rest.ok THEN [ok |-> TRUE, s |-> <<cp>> \o rest.s] ELSE rest

\* the n low-order bytes of i, big-endian: int.to_bytes(n, "big") for
\* 0 <= i < 256^n, and the two's complement int.to_bytes(n, "big", signed=True)
\* for a negative i (\div rounds down and % is non-negative)
RECURSIVE ToBytes(_, _)
ToBytes(i, n) == IF n = 0 THEN <<>> ELSE ToBytes(i \div 256, n - 1) \o <<i % 256>>

RECURSIVE BitLength(_)
\* int.bit_length() of a non-negative integer
BitLength(i) == IF i = 0 THEN 0 ELSE 1 + BitLength(i \div 2)

Abs(i) == IF i < 0 THEN -i ELSE i

Encoder_int32(i) == ToBytes(i, 4)

Encoder_int32_signed(i) == ToBytes(i, 4)

Encoder_int16(i) == ToBytes(i, 2)

Encoder_str(s) == LET encoded == Utf8Encode(s) IN Encoder_int32(Len(encoded)) \o encoded

Encoder_varint(i) ==
    IF i = 0 THEN <<1, 0>>
    ELSE LET n == (BitLength(Abs(i)) + 8) \div 8
             b == ToBytes(i, n)
         IN <<Len(b)>> \o b

-----------------------------------------------------------------------------
(* Constant pool entries, tags and opcodes (compiler.py)                   *)

ConstEntry_INT == 1
ConstEntry_FLOAT == 2
ConstEntry_STRING == 3
ConstEntry_RUNNABLE == 4

NOP == 0
PUSH_CONST == 1
PUSH_NIL == 2
DUP == 3
GET == 10
SET_GLOBAL == 11
SET == 12
INVOKE == 16
INJECT_PARENT_SCOPE == 17
ADD == 32
MULTIPLY == 33
SUB == 34
DIV == 35
LESSTHAN == 36
LOGICNOT == 48
GETATTR == 64
JMP == 80
JMP_IF == 81
RETURN == 127
DISCARD == 128

\* the members of CONST_TYPE the lexer can produce: int, str, RunnableEntry
CInt(n) == [tag |-> "int", int |-> n]
CStr(s) == [tag |-> "str", str |-> s]
RunnableEntry(args, bytecode) == [tag |-> "runnable", args |-> args, bytecode |-> bytecode]

\* list.index(const): 0-based position of the first equal entry
IndexOf(pool, const) == (CHOOSE i \in DOMAIN pool :
                            /\ pool[i] = const
                            /\ \A j \in DOMAIN pool : pool[j] = const => i <= j) - 1

\* Module.push_const, always appending (no search for an equal entry)
push_const_nodedup(const_pool, const) ==
    [const_pool |-> Append(const_pool, const), index |-> Len(const_pool)]

\* Module.push_const: the pool after the call and the index returned
push_const(const_pool, const) ==
    IF const \in Range(const_pool)
    THEN [const_pool |-> const_pool, index |-> IndexOf(const_pool, const)]
    ELSE [const_pool |-> Append(const_pool, const), index |-> Len(const_pool)]

\* Module(): no name, no bytecode, empty pool
NewModule == [named |-> FALSE, name |-> <<>>, const_pool |-> <<>>,
              compiled |-> FALSE, bytecode |-> <<>>]

-----------------------------------------------------------------------------
(* AST nodes (parser.py)                                                   *)

CallNode(callee, args) == [node |-> "CallNode", callee |-> callee, args |-> args]
IdenNode(iden) == [node |-> "IdenNode", iden |-> iden]
ConstNode(value) == [node |-> "ConstNode", value |-> value]
DiscardNode(value) == [node |-> "DiscardNode", value |-> value]
ModuleDeclNode(modname) == [node |-> "ModuleDeclNode", modname |-> modname]
BinOpNode(left, op, right) == [node |-> "BinOpNode", left |-> left, op |-> op, right |-> right]
ReturnNode(value) == [node |-> "ReturnNode", has_value |-> TRUE, value |-> value]
ReturnNone == [node |-> "ReturnNode", has_value |-> FALSE]
AnonProcDeclNode(args, body) == [node |-> "AnonProcDeclNode", args |-> args, body |-> body]
AssignNode(to, value) == [node |-> "AssignNode", to |-> to, value |-> value]
ForNode(var, value, body) == [node |-> "ForNode", var |-> var, value |-> value, body |-> body]
UseNode(name, as_name) == [node |-> "UseNode", name |-> name, as_name |-> as_name]
AttrNode(obj, attr) == [node |-> "AttrNode", obj |-> obj, attr |-> attr]
TagNode(tag, value) == [node |-> "TagNode", tag |-> tag, has_value |-> TRUE, value |-> value]
TagNone(tag) == [node |-> "TagNode", tag |-> tag, has_value |-> FALSE]
AssignAndReturnNode(to, value) == [node |-> "AssignAndReturnNode", to |-> to, value |-> value]
WhileNode(cond, body) == [node |-> "WhileNode", cond |-> cond, body |-> body]

\* Parser.statement for an expression that is a named procedure declaration:
\* Parser.anon_proc returns DeclWrapNode(AssignAndReturnNode(..)), whose value
\* Parser.statement wraps in a DiscardNode
NamedProcStatement(proc_name, args, body) ==
    DiscardNode(AssignAndReturnNode(IdenNode(proc_name), AnonProcDeclNode(args, body)))

-----------------------------------------------------------------------------
(* Compiler (compiler.py): one visitor per AST node.  A visit returns the  *)
(* emitted code and the Module object as the visit left it; err names the  *)
(* exception that aborted the visit.                                       *)

name_import == <<95, 95, 1057, 1080, 1089, 1042, 1099, 1079, 1086, 1074, 95,
                 1048, 1084, 1087, 1086, 1088, 1090, 1052, 1086, 1076, 1091, 1083, 1103>>
name_tag == <<95, 95, 1057, 1080, 1089, 1042, 1099, 1079, 1086, 1074, 95,
              1057, 1086, 1079, 1076, 1072, 1090, 1100, 1058, 1101, 1075>>
name_tag1 == name_tag \o <<49>>
name_tag2 == name_tag \o <<50>>
name_tell == <<1057, 1086, 1086, 1073, 1097, 1080, 1090, 1100>>
dot == <<46>>

Emitted(code, m) == [err |-> "", code |-> code, m |-> m]
Raised(e, m) == [err |-> e, code |-> <<>>, m |-> m]

\* the opcode table of Compiler.visit_node_BinOpNode
BinOpcode(op) == CASE op = "Add" -> ADD [] op = "Mul" -> MULTIPLY [] op = "Lt" -> LESSTHAN

\* the jumps with a back-jump offset that leaves out the back-jump's own length
WhileCode_short(cond, body) ==
    LET intro == cond \o <<LOGICNOT, JMP_IF>> \o Encoder_int32_signed(Len(body) + 5)
        outro == <<JMP>> \o Encoder_int32_signed(-Len(intro) - Len(body))
    IN intro \o body \o outro

\* the two jumps Compiler.visit_node_WhileNode wraps around cond and body
WhileCode(cond, body) ==
    LET intro == cond \o <<LOGICNOT, JMP_IF>> \o Encoder_int32_signed(Len(body) + 5)
        outro == <<JMP>> \o Encoder_int32_signed(-Len(intro) - Len(body) - 5)
    IN intro \o body \o outro

\* an exception propagates: K continues only from a result without one
Then(r, K(_)) == IF r.err # "" THEN r ELSE K(r)

\* module.push_const(const), then K with the index returned and the module
Pushed(m, const, K(_, _)) ==
    LET done(p) == K(p.index, [m EXCEPT !.const_pool = p.const_pool])
    IN done(push_const(m.const_pool, const))

\* Compiler.assign_node_setter
assign_node_setter(to, m) ==
    IF to.node # "IdenNode" THEN Raised("AssertionError", m)
    ELSE Pushed(m, CStr(to.iden), LAMBDA name_ptr, m2 :
            Emitted(<<SET>> \o Encoder_int32(name_ptr), m2))

RECURSIVE visit_node(_, _), visit_nodes(_, _)

\* the loops `for i in nodes: bytecode.extend(self.visit_node(i))`
visit_nodes(nodes, m) ==
    IF nodes = <<>> THEN Emitted(<<>>, m)
    ELSE Then(visit_node(Head(nodes), m), LAMBDA h :
         Then(visit_nodes(Tail(nodes), h.m), LAMBDA t :
         Emitted(h.code \o t.code, t.m)))

\* Compiler.visit_node and the visit_node_* methods it dispatches to
visit_node(node, m) ==
    CASE node.node = "ConstNode" ->
            Pushed(m, node.value, LAMBDA ptr, m2 :
                Emitted(<<PUSH_CONST>> \o Encoder_int32(ptr), m2))
      [] node.node = "IdenNode" ->
            Pushed(m, CStr(node.iden), LAMBDA ptr, m2 :
                Emitted(<<GET>> \o Encoder_int32(ptr), m2))
      [] node.node = "AssignNode" ->
            Then(visit_node(node.value, m), LAMBDA v :
            Then(assign_node_setter(node.to, v.m), LAMBDA s :
            Emitted(v.code \o s.code, s.m)))
      [] node.node = "AssignAndReturnNode" ->
            Then(visit_node(node.value, m), LAMBDA v :
            Then(assign_node_setter(node.to, v.m), LAMBDA s :
            Emitted(v.code \o <<DUP>> \o s.code, s.m)))
      [] node.node = "AttrNode" ->
            Pushed(m, CStr(node.attr), LAMBDA attr_ptr, m2 :
            Then(visit_node(node.obj, m2), LAMBDA o :
            Emitted(o.code \o <<GETATTR>> \o Encoder_int32(attr_ptr), o.m)))
      [] node.node = "WhileNode" ->
            Then(visit_nodes(node.body, m), LAMBDA body :
            Then(visit_node(node.cond, body.m), LAMBDA cond :
            Emitted(WhileCode(cond.code, body.code), cond.m)))
      [] node.node = "ReturnNode" ->
            IF ~node.has_value THEN Emitted(<<PUSH_NIL, RETURN>>, m)
            ELSE Then(visit_node(node.value, m), LAMBDA v :
                 Emitted(v.code \o <<RETURN>>, v.m))
      [] node.node = "ForNode" -> Raised("AssertionError", m)
      [] node.node = "AnonProcDeclNode" ->
            Then(visit_nodes(node.body, m), LAMBDA body :
            Pushed(body.m, RunnableEntry(node.args, body.code), LAMBDA ptr_runnable, m2 :
            Emitted(<<PUSH_CONST>> \o Encoder_int32(ptr_runnable)
                      \o <<INJECT_PARENT_SCOPE>>, m2)))
      [] node.node = "ModuleDeclNode" ->
            Emitted(<<>>, [m EXCEPT !.named = TRUE, !.name = Join(node.modname, dot)])
      [] node.node = "CallNode" ->
            Then(visit_nodes(node.args, m), LAMBDA args :
            Then(visit_node(node.callee, args.m), LAMBDA callee :
            Emitted(args.code \o callee.code \o <<INVOKE>>
                      \o Encoder_int16(Len(node.args)), callee.m)))
      [] node.node = "BinOpNode" ->
            Then(visit_node(node.left, m), LAMBDA l :
            Then(visit_node(node.right, l.m), LAMBDA r :
            IF node.op \notin {"Add", "Mul", "Lt"} THEN Raised("KeyError", r.m)
            ELSE Emitted(l.code \o r.code \o <<BinOpcode(node.op)>>, r.m)))
      [] node.node = "DiscardNode" ->
            Then(visit_node(node.value, m), LAMBDA v :
            Emitted(v.code \o <<DISCARD>>, v.m))
      [] node.node = "UseNode" ->
            visit_node(AssignNode(IdenNode(node.as_name),
                           CallNode(IdenNode(name_import),
                                    <<ConstNode(CStr(Join(node.name, dot)))>>)), m)
      [] node.node = "TagNode" ->
            IF ~node.has_value
            THEN visit_node(CallNode(IdenNode(name_tag1), <<ConstNode(CStr(node.tag))>>), m)
            ELSE visit_node(CallNode(IdenNode(name_tag2),
                                     <<ConstNode(CStr(node.tag)), node.value>>), m)
      [] OTHER -> Raised("NotImplementedError", m)

\* compile_module without the assert that the name is not cached yet
compile_module_overwrite(cache, module_ast) ==
    LET visited(v) ==
            IF v.err # "" THEN [err |-> v.err, m |-> v.m, module_cache |-> cache]
            ELSE IF ~v.m.named
                 THEN [err |-> "ValueError", m |-> v.m, module_cache |-> cache]
            ELSE [err |-> "", m |-> [v.m EXCEPT !.compiled = TRUE, !.bytecode = v.code],
                  module_cache |->
                      [n \in DOMAIN cache \cup {v.m.name} |->
                          IF n = v.m.name
                          THEN [v.m EXCEPT !.compiled = TRUE, !.bytecode = v.code]
                          ELSE cache[n]]]
    IN visited(visit_nodes(module_ast, NewModule))

\* Compiler.compile_module: the Module built from module_ast and the module
\* cache after the call
compile_module(cache, module_ast) ==
    LET cached(done) ==
            [err |-> "", m |-> done,
             module_cache |-> [n \in DOMAIN cache \cup {done.name} |->
                                  IF n = done.name THEN done ELSE cache[n]]]
        visited(v) ==
            IF v.err # "" THEN [err |-> v.err, m |-> v.m, module_cache |-> cache]
            ELSE IF ~v.m.named
                 THEN [err |-> "ValueError", m |-> v.m, module_cache |-> cache]
            ELSE IF v.m.name \in DOMAIN cache
                 THEN [err |-> "AssertionError", m |-> v.m, module_cache |-> cache]
            ELSE cached([v.m EXCEPT !.compiled = TRUE, !.bytecode = v.code])
    IN visited(visit_nodes(module_ast, NewModule))

\* the empty module cache of Compiler()
NoModules == [n \in {} |-> NewModule]

-----------------------------------------------------------------------------
(* Module.dump (compiler.py)                                               *)

RECURSIVE DumpArgs(_)
DumpArgs(args) == IF args = <<>> THEN <<>> ELSE Encoder_str(Head(args)) \o DumpArgs(Tail(args))

\* one iteration of the loop over const_pool in Module.dump
DumpEntry(entry) ==
    CASE entry.tag = "str" -> <<ConstEntry_STRING>> \o Encoder_str(entry.str)
      [] entry.tag = "int" -> <<ConstEntry_INT>> \o Encoder_varint(entry.int)
      [] entry.tag = "runnable" ->
            <<ConstEntry_RUNNABLE, Len(entry.args)>> \o DumpArgs(entry.args)
              \o Encoder_int32(Len(entry.bytecode)) \o entry.bytecode

RECURSIVE DumpPool(_)
DumpPool(pool) == IF pool = <<>> THEN <<>> ELSE DumpEntry(Head(pool)) \o DumpPool(Tail(pool))

\* what Module.dump writes after the constant pool
DumpTrailer(m, intro_runnable) == Encoder_int32(intro_runnable)

\* Module.dump: the bytes returned and the Module after the call (dump pushes
\* the root RunnableEntry into the pool)
Module_dump(m) ==
    LET written(m2, intro_runnable) ==
            IF ~m.named THEN [err |-> "ValueError", bytes |-> <<>>, m |-> m2]
            ELSE [err |-> "", m |-> m2,
                  bytes |-> Encoder_str(m2.name) \o Encoder_int32(Len(m2.const_pool))
                            \o DumpPool(m2.const_pool) \o DumpTrailer(m2, intro_runnable)]
        pushed(p) == written([m EXCEPT !.const_pool = p.const_pool], p.index)
    IN IF ~m.compiled THEN [err |-> "AssertionError", bytes |-> <<>>, m |-> m]
       ELSE pushed(push_const(m.const_pool, RunnableEntry(<<>>, m.bytecode)))

-----------------------------------------------------------------------------
(* ByteStream (tempvm.py).  TLC integers are 32-bit: a value or           *)
(* an index that does not fit saturates at 2^31 - 1, far beyond the end of *)
(* every stream, where all reads behave alike.                             *)

SatAdd(a, b) == IF a > 2147483647 - b THEN 2147483647 ELSE a + b

SatShift(a) == IF a > 8388607 THEN 2147483647
               ELSE IF a < -8388607 THEN -2147483647 ELSE a * 256

RECURSIVE from_bytes(_)
\* int.from_bytes(b, "big")
from_bytes(b) ==
    IF b = <<>> THEN 0
    ELSE SatAdd(SatShift(from_bytes(SubSeq(b, 1, Len(b) - 1))), b[Len(b)])

RECURSIVE from_bytes_signed(_)
\* int.from_bytes(b, "big", signed=True)
from_bytes_signed(b) ==
    IF b = <<>> THEN 0
    ELSE IF Len(b) = 1 THEN (IF b[1] >= 128 THEN b[1] - 256 ELSE b[1])
    ELSE LET hi == SatShift(from_bytes_signed(SubSeq(b, 1, Len(b) - 1))) IN
         IF hi <= -2147483647 THEN hi ELSE SatAdd(hi, b[Len(b)])

ByteStream(arr) == [arr |-> arr, idx |-> 0]

Read(val, s, n) == [err |-> "", val |-> val, s |-> [s EXCEPT !.idx = SatAdd(s.idx, n)]]

ByteStream_byte(s) ==
    IF s.idx >= Len(s.arr) THEN [err |-> "IndexError", val |-> 0, s |-> s]
    ELSE Read(s.arr[s.idx + 1], s, 1)

ByteStream_int16(s) == Read(from_bytes(Slice(s.arr, s.idx, 2)), s, 2)

ByteStream_int32(s) == Read(from_bytes(Slice(s.arr, s.idx, 4)), s, 4)

ByteStream_bytes(s, amt) == Read(Slice(s.arr, s.idx, amt), s, amt)

ByteStream_str(s) ==
    LET decoded(length, raw, val) ==
            IF ~val.ok THEN [err |-> "UnicodeDecodeError", val |-> <<>>, s |-> length.s]
            ELSE [err |-> "", val |-> val.s, s |-> raw.s]
        sliced(length, raw) == decoded(length, raw, Utf8Decode(raw.val))
        read(length) == sliced(length, ByteStream_bytes(length.s, length.val))
    IN read(ByteStream_int32(s))

\* varint read with the unsigned int.from_bytes
ByteStream_varint_unsigned(s) ==
    LET unsigned(raw) == [err |-> "", val |-> from_bytes(raw.val), s |-> raw.s]
        read(amt) == IF amt.err # "" THEN amt ELSE unsigned(ByteStream_bytes(amt.s, amt.val))
    IN read(ByteStream_byte(s))

ByteStream_varint(s) ==
    LET signed(raw) == [err |-> "", val |-> from_bytes_signed(raw.val), s |-> raw.s]
        read(amt) == IF amt.err # "" THEN amt ELSE signed(ByteStream_bytes(amt.s, amt.val))
    IN read(ByteStream_byte(s))

ByteStream_over(s) == s.idx >= Len(s.arr)

-----------------------------------------------------------------------------
(* Runtime objects (rtobjects.py, stdlib.py) and loading (tempvm.py)       *)

Number(n) == [object_type |-> "Number", value |-> n]
String(s) == [object_type |-> "String", str |-> s]
\* a WLObject of type Runnable holding the Runnable object constpool[index] of module
RunnableValue(module, index) == [object_type |-> "Runnable", module |-> module, index |-> index]
\* a WLObject of type Runnable holding a native function of stdlib.py
Builtin(fn) == [object_type |-> "Runnable", fn |-> fn]
NIL == [object_type |-> "Nil"]
PyNone == [object_type |-> "None"]

IsBuiltin(v) == v.object_type = "Runnable" /\ "fn" \in DOMAIN v

\* Runnable.__init__
Runnable(module, args, bytecode) ==
    [tag |-> "runnable", module |-> module, args |-> args, bytecode |-> bytecode,
     parent_scope |-> 0]

\* stdlib.defaults, the dictionary every module's globals start from
defaults == (CStr(name_tell) :> Builtin("tell")) @@ (CStr(name_import) :> Builtin("modimport"))

\* WLModule.__init__
WLModule(name, root_runnable, constpool) ==
    [name |-> name, root_runnable |-> root_runnable, constpool |-> constpool,
     globals |-> defaults]

RECURSIVE load_args(_, _)
\* the loop reading argcount parameter names
load_args(s, argcount) ==
    LET both(a, rest) ==
            IF rest.err # "" THEN rest
            ELSE [err |-> "", val |-> <<a.val>> \o rest.val, s |-> rest.s]
        first(a) == IF a.err # "" THEN a ELSE both(a, load_args(a.s, argcount - 1))
    IN IF argcount = 0 THEN [err |-> "", val |-> <<>>, s |-> s]
       ELSE first(ByteStream_str(s))

\* one iteration of the loop over const_count: the entry appended to const_pool
load_const(s, module_name) ==
    LET string(v) == IF v.err # "" THEN v ELSE [err |-> "", val |-> CStr(v.val), s |-> v.s]
        int(v) == IF v.err # "" THEN v ELSE [err |-> "", val |-> CInt(v.val), s |-> v.s]
        made(args, bytecode) ==
            [err |-> "", s |-> bytecode.s, val |-> Runnable(module_name, args.val, bytecode.val)]
        body(args, bytecode_len) ==
            made(args, ByteStream_bytes(bytecode_len.s, bytecode_len.val))
        named(args) == IF args.err # "" THEN args ELSE body(args, ByteStream_int32(args.s))
        runnable(argcount) ==
            IF argcount.err # "" THEN argcount
            ELSE named(load_args(argcount.s, argcount.val))
        entry(typ) ==
            IF typ.err # "" THEN typ
            ELSE IF typ.val = ConstEntry_STRING THEN string(ByteStream_str(typ.s))
            ELSE IF typ.val = ConstEntry_INT THEN int(ByteStream_varint(typ.s))
            ELSE IF typ.val = ConstEntry_RUNNABLE THEN runnable(ByteStream_byte(typ.s))
            ELSE [err |-> "NotImplementedError", val |-> 0, s |-> typ.s]
    IN entry(ByteStream_byte(s))

RECURSIVE load_consts(_, _, _)
\* the loop over const_count
load_consts(s, const_count, module_name) ==
    LET both(e, rest) ==
            IF rest.err # "" THEN rest
            ELSE [err |-> "", val |-> <<e.val>> \o rest.val, s |-> rest.s]
        first(e) ==
            IF e.err # "" THEN [err |-> e.err, val |-> <<>>, s |-> e.s]
            ELSE both(e, load_consts(e.s, const_count - 1, module_name))
    IN IF const_count = 0 THEN [err |-> "", val |-> <<>>, s |-> s]
       ELSE first(load_const(s, module_name))

\* the root bytecode of a module as VM.load_from_bytes reads it
load_root(s) ==
    LET read(bytecode_length) == ByteStream_bytes(bytecode_length.s, bytecode_length.val)
    IN read(ByteStream_int32(s))

\* self.modules[module_name] = module
Register(table, module) ==
    [n \in DOMAIN table \cup {module.name} |-> IF n = module.name THEN module ELSE table[n]]

RECURSIVE load_modules(_, _, _)
\* the loop over module_count; table is VM.modules.  Once the stream is
\* exhausted every further iteration registers the same empty module.
load_modules(s, module_count, table) ==
    LET next(root, table2) ==
            IF ByteStream_over(s) THEN [err |-> "", modules |-> table2]
            ELSE load_modules(root.s, module_count - 1, table2)
        rooted(module_name, pool, root) ==
            next(root, Register(table, WLModule(module_name.val,
                                    Runnable(module_name.val, <<>>, root.val), pool.val)))
        pooled(module_name, pool) ==
            IF pool.err # "" THEN [err |-> pool.err, modules |-> table]
            ELSE rooted(module_name, pool, load_root(pool.s))
        counted(module_name, const_count) ==
            pooled(module_name, load_consts(const_count.s, const_count.val, module_name.val))
        named(module_name) ==
            IF module_name.err # "" THEN [err |-> module_name.err, modules |-> table]
            ELSE counted(module_name, ByteStream_int32(module_name.s))
    IN IF module_count = 0 THEN [err |-> "", modules |-> table]
       ELSE named(ByteStream_str(s))

\* VM.load_from_bytes: VM.modules after the call, err the exception raised
load_from_bytes(table, thing) ==
    LET counted(module_count) == load_modules(module_count.s, module_count.val, table)
        checked(magic) ==
            IF magic.val # MAGIC THEN [err |-> "AssertionError", modules |-> table]
            ELSE counted(ByteStream_int32(magic.s))
    IN checked(ByteStream_bytes(ByteStream(thing), 8))

\* VM(): no module loaded
NoWLModules == [n \in {} |-> 0]

\* a byte stream in the layout VM.load_from_bytes reads (one module)
Image(m) ==
    MAGIC \o Encoder_int32(1) \o Encoder_str(m.name) \o Encoder_int32(Len(m.const_pool))
      \o DumpPool(m.const_pool) \o Encoder_int32(Len(m.bytecode)) \o m.bytecode

-----------------------------------------------------------------------------
(* RunnableContext and Executor (tempvm.py)                                *)

\* RunnableContext.__init__
RunnableContext(module, bytecode, parent) ==
    [module |-> module, localsx |-> [k \in {} |-> NIL], stack |-> <<>>,
     bs |-> ByteStream(bytecode), parent |-> parent]

RECURSIVE RunnableContext_has(_, _, _, _)
\* RunnableContext.has: heap is the contexts by identity, table is VM.modules
RunnableContext_has(heap, table, self, name) ==
    \/ CStr(name) \in DOMAIN heap[self].localsx
    \/ heap[self].parent # 0 /\ RunnableContext_has(heap, table, heap[self].parent, name)
    \/ CStr(name) \in DOMAIN table[heap[self].module].globals

RECURSIVE RunnableContext_get(_, _, _, _)
\* RunnableContext.get; err is KeyError where the dictionary lookup fails
RunnableContext_get(heap, table, self, name) ==
    IF CStr(name) \in DOMAIN heap[self].localsx
    THEN [err |-> "", val |-> heap[self].localsx[CStr(name)]]
    ELSE IF heap[self].parent # 0 /\ RunnableContext_has(heap, table, heap[self].parent, name)
    THEN RunnableContext_get(heap, table, heap[self].parent, name)
    ELSE IF CStr(name) \in DOMAIN table[heap[self].module].globals
    THEN [err |-> "", val |-> table[heap[self].module].globals[CStr(name)]]
    ELSE [err |-> "KeyError", val |-> NIL]

\* the name lookup of the GET opcode: executor.ctx().get(iden)
Lookup(heap, table, top, name) == RunnableContext_get(heap, table, top, name)

\* the key a constant pool entry makes in a locals dictionary
LocalKey(module, ptr, entry) ==
    IF entry.tag = "runnable" THEN [tag |-> "runnable", module |-> module, index |-> ptr]
    ELSE entry

\* dict[key] = val
DictSet(d, key, val) == [k \in DOMAIN d \cup {key} |-> IF k = key THEN val ELSE d[k]]

\* the store of the SET opcode were it to rebind a name the lexical parent
\* already holds (an implicit nonlocal assignment)
StoreLocal_nonlocal(heap, self, key, val) ==
    IF heap[self].parent # 0 /\ key \in DOMAIN heap[heap[self].parent].localsx
    THEN [heap EXCEPT ![heap[self].parent].localsx = DictSet(@, key, val)]
    ELSE [heap EXCEPT ![self].localsx = DictSet(@, key, val)]

\* the store of the SET opcode: self.locals()[name] = val
StoreLocal(heap, self, key, val) ==
    [heap EXCEPT ![self].localsx = DictSet(@, key, val)]

\* the WLObject PUSH_CONST makes of constpool[ptr]
ConstValue(module, ptr, raw_obj) ==
    CASE raw_obj.tag = "str" -> String(raw_obj.str)
      [] raw_obj.tag = "int" -> Number(raw_obj.int)
      [] raw_obj.tag = "runnable" -> RunnableValue(module, ptr)

\* operate_bi
operate_bi(left, right, op) ==
    IF left.object_type = "None" THEN [err |-> "AttributeError", val |-> NIL]
    ELSE IF left.object_type # "Number" THEN [err |-> "NotImplementedError", val |-> NIL]
    ELSE IF right.object_type = "None" THEN [err |-> "AttributeError", val |-> NIL]
    ELSE IF right.object_type # "Number" THEN [err |-> "AssertionError", val |-> NIL]
    ELSE IF op = "ADD" THEN [err |-> "", val |-> Number(left.value + right.value)]
    ELSE IF op = "MULTIPLY" THEN [err |-> "", val |-> Number(left.value * right.value)]
    ELSE [err |-> "NotImplementedError", val |-> NIL]

\* the zip with the arguments taken from the last to the first
BindArgs_reversed(names, given) ==
    [k \in {CStr(names[i]) : i \in DOMAIN names} |->
        given[Len(given) + 1 - CHOOSE i \in DOMAIN names :
                 /\ CStr(names[i]) = k
                 /\ \A j \in DOMAIN names : CStr(names[j]) = k => j <= i]]

\* `for my, given in zip(self.args, args): ctx.locals()[my] = given`
BindArgs(names, given) ==
    [k \in {CStr(names[i]) : i \in DOMAIN names} |->
        given[CHOOSE i \in DOMAIN names :
                 /\ CStr(names[i]) = k
                 /\ \A j \in DOMAIN names : CStr(names[j]) = k => j <= i]]

\* the argument list INVOKE builds: argcount pops, each inserted at the front
PopArgs(stack, argcount) ==
    IF Len(stack) < argcount THEN [err |-> "IndexError", args |-> <<>>, stack |-> <<>>]
    ELSE [err |-> "", args |-> SubSeq(stack, Len(stack) - argcount + 1, Len(stack)),
          stack |-> SubSeq(stack, 1, Len(stack) - argcount)]

\* what INVOKE appends to the caller's stack after a user Runnable was called:
\* the value Runnable.__call__ returns
CallResult == <<PyNone>>

\* the opcodes RunnableContext.step implements
Implemented == {NOP, PUSH_CONST, SET, GET, INVOKE, DISCARD, MULTIPLY, ADD, RETURN,
                INJECT_PARENT_SCOPE}

Ex == executor_stack[Len(executor_stack)]
Cur == Ex[Len(Ex)]
Self == ctxs[Cur]
Running == error = "" /\ executor_stack # <<>>
Fetch(opcode) == /\ Running
                 /\ ~ByteStream_over(Self.bs)
                 /\ Self.bs.arr[Self.bs.idx + 1] = opcode
\* the context after its opcode byte was read
Fetched == [Self EXCEPT !.bs.idx = @ + 1]
Pool == modules[Self.module].constpool
Top(s) == s[Len(s)]
Pop(s) == SubSeq(s, 1, Len(s) - 1)

compiler_vars == <<mod, issued, stream, module_cache>>
host_vars == <<mod, issued, stream, module_cache, pc>>

\* an exception leaves RunnableContext.step with the context as c
Raise(e, c) ==
    /\ error' = e
    /\ ctxs' = [ctxs EXCEPT ![Cur] = c]
    /\ UNCHANGED <<input, modules, executor_stack, out, retval, host_vars>>

\* RunnableContext.step returns CONTINUE with the context as c
Continue(c) ==
    /\ ctxs' = [ctxs EXCEPT ![Cur] = c]
    /\ UNCHANGED <<input, modules, executor_stack, out, retval, error, host_vars>>

\* RunnableContext.step returns (END, v): the END branch of Executor.step and,
\* when the executor ends, of the loop of VM.executor_solo
End(v, c) ==
    LET rest == Pop(Ex) IN
    /\ UNCHANGED <<input, modules, out, host_vars>>
    /\ IF v = PyNone
       THEN /\ error' = "AssertionError"
            /\ ctxs' = [ctxs EXCEPT ![Cur] = c]
            /\ executor_stack' = [executor_stack EXCEPT ![Len(executor_stack)] = rest]
            /\ UNCHANGED retval
       ELSE /\ retval' = v
            /\ UNCHANGED error
            /\ IF rest # <<>>
               THEN /\ ctxs' = [ctxs EXCEPT ![Cur] = c, ![Top(rest)].stack = Append(@, v)]
                    /\ executor_stack' = [executor_stack EXCEPT ![Len(executor_stack)] = rest]
               ELSE /\ ctxs' = [ctxs EXCEPT ![Cur] = c]
                    /\ executor_stack' = Pop(executor_stack)

\* VM.executor_solo up to its loop: the root context of the module is pushed
executor_solo ==
    /\ pc = "loaded" /\ error = ""
    /\ \E module \in DOMAIN modules :
          /\ ctxs' = <<RunnableContext(module, modules[module].root_runnable.bytecode, 0)>>
          /\ executor_stack' = << <<1>> >>
    /\ pc' = "running"
    /\ UNCHANGED <<input, modules, out, retval, error, compiler_vars>>

StepOver == Running /\ ByteStream_over(Self.bs) /\ End(NIL, Self)

StepNOP == Fetch(NOP) /\ Continue(Fetched)

StepPUSH_CONST ==
    /\ Fetch(PUSH_CONST)
    /\ LET ptr == ByteStream_int32(Fetched.bs)
           c == [Self EXCEPT !.bs = ptr.s]
       IN IF ptr.val >= Len(Pool) THEN Raise("IndexError", c)
          ELSE Continue([c EXCEPT !.stack =
                            Append(@, ConstValue(Self.module, ptr.val, Pool[ptr.val + 1]))])

StepSET ==
    /\ Fetch(SET)
    /\ LET ptr == ByteStream_int32(Fetched.bs)
           c == [Self EXCEPT !.bs = ptr.s]
       IN IF c.stack = <<>> THEN Raise("IndexError", c)
          ELSE LET val == Top(c.stack)
                   c2 == [c EXCEPT !.stack = Pop(@)]
               IN IF ptr.val >= Len(Pool) THEN Raise("IndexError", c2)
                  ELSE /\ ctxs' = StoreLocal([ctxs EXCEPT ![Cur] = c2], Cur,
                                     LocalKey(Self.module, ptr.val, Pool[ptr.val + 1]), val)
                       /\ UNCHANGED <<input, modules, executor_stack, out, retval, error,
                                      host_vars>>

StepGET ==
    /\ Fetch(GET)
    /\ LET ptr == ByteStream_int32(Fetched.bs)
           c == [Self EXCEPT !.bs = ptr.s]
       IN IF ptr.val >= Len(Pool) THEN Raise("IndexError", c)
          ELSE IF Pool[ptr.val + 1].tag # "str" THEN Raise("AssertionError", c)
          ELSE LET v == Lookup(ctxs, modules, Cur, Pool[ptr.val + 1].str) IN
               IF v.err # "" THEN Raise(v.err, c)
               ELSE Continue([c EXCEPT !.stack = Append(@, v.val)])

\* the builtins of stdlib.py, called with args
CallBuiltin(fn, args, c) ==
    IF fn = "tell"
    THEN /\ out' = Append(out, args)
         /\ ctxs' = [ctxs EXCEPT ![Cur] = [c EXCEPT !.stack = Append(@, NIL)]]
         /\ UNCHANGED <<input, modules, executor_stack, retval, error, host_vars>>
    ELSE IF args = <<>> THEN Raise("IndexError", c)
    ELSE IF args[1].object_type = "None" THEN Raise("AttributeError", c)
    ELSE IF args[1].object_type # "String" THEN Raise("AssertionError", c)
    ELSE Raise("AttributeError", c)

\* Runnable.__call__ without its assert: zip binds as many parameters as there
\* are arguments
CallRunnable_unchecked(r, args, c) ==
    LET n == Min2(Len(r.args), Len(args))
        ctx == [RunnableContext(r.module, r.bytecode, r.parent_scope)
                   EXCEPT !.localsx = BindArgs(SubSeq(r.args, 1, n), SubSeq(args, 1, n))]
    IN /\ ctxs' = Append([ctxs EXCEPT ![Cur] = [c EXCEPT !.stack = @ \o CallResult]], ctx)
       /\ executor_stack' = [executor_stack EXCEPT ![Len(executor_stack)] =
                                Append(@, Len(ctxs) + 1)]
       /\ UNCHANGED <<input, modules, out, retval, error, host_vars>>

\* Runnable.__call__ and the append that follows it in INVOKE
CallRunnable(r, args, c) ==
    IF Len(args) # Len(r.args) THEN Raise("AssertionError", c)
    ELSE LET ctx == [RunnableContext(r.module, r.bytecode, r.parent_scope)
                        EXCEPT !.localsx = BindArgs(r.args, args)]
         IN /\ ctxs' = Append([ctxs EXCEPT ![Cur] = [c EXCEPT !.stack = @ \o CallResult]], ctx)
            /\ executor_stack' = [executor_stack EXCEPT ![Len(executor_stack)] =
                                     Append(@, Len(ctxs) + 1)]
            /\ UNCHANGED <<input, modules, out, retval, error, host_vars>>

StepINVOKE ==
    /\ Fetch(INVOKE)
    /\ LET argcount == ByteStream_int16(Fetched.bs)
           c == [Self EXCEPT !.bs = argcount.s]
       IN IF c.stack = <<>> THEN Raise("IndexError", c)
          ELSE LET callee == Top(c.stack)
                   popped == PopArgs(Pop(c.stack), argcount.val)
                   c2 == [c EXCEPT !.stack = popped.stack]
               IN IF popped.err # "" THEN Raise(popped.err, c2)
                  ELSE IF callee.object_type = "None" THEN Raise("AttributeError", c2)
                  ELSE IF callee.object_type # "Runnable" THEN Raise("AssertionError", c2)
                  ELSE IF IsBuiltin(callee) THEN CallBuiltin(callee.fn, popped.args, c2)
                  ELSE CallRunnable(modules[callee.module].constpool[callee.index + 1],
                                    popped.args, c2)

StepDISCARD ==
    /\ Fetch(DISCARD)
    /\ IF Self.stack = <<>> THEN Raise("IndexError", Fetched)
       ELSE Continue([Fetched EXCEPT !.stack = Pop(@)])

\* the MULTIPLY and ADD branches
BinaryStep(opcode, op) ==
    /\ Fetch(opcode)
    /\ IF Len(Self.stack) < 2 THEN Raise("IndexError", [Fetched EXCEPT !.stack = <<>>])
       ELSE LET right == Top(Self.stack)
                left == Top(Pop(Self.stack))
                c == [Fetched EXCEPT !.stack = Pop(Pop(@))]
                v == operate_bi(left, right, op)
            IN IF v.err # "" THEN Raise(v.err, c)
               ELSE Continue([c EXCEPT !.stack = Append(@, v.val)])

StepMULTIPLY == BinaryStep(MULTIPLY, "MULTIPLY")

StepADD == BinaryStep(ADD, "ADD")

StepRETURN ==
    /\ Fetch(RETURN)
    /\ IF Self.stack = <<>> THEN Raise("IndexError", Fetched)
       ELSE End(Top(Self.stack), [Fetched EXCEPT !.stack = Pop(@)])

\* r.parent_scope = self, for the Runnable object constpool[index] of module
InjectParent(table, module, index, self) ==
    [table EXCEPT ![module].constpool[index + 1].parent_scope = self]

StepINJECT_PARENT_SCOPE ==
    /\ Fetch(INJECT_PARENT_SCOPE)
    /\ IF Self.stack = <<>> THEN Raise("IndexError", Fetched)
       ELSE LET v == Top(Self.stack) IN
            IF v.object_type = "None" THEN Raise("AttributeError", Fetched)
            ELSE IF v.object_type # "Runnable" THEN Raise("AssertionError", Fetched)
            ELSE /\ ctxs' = [ctxs EXCEPT ![Cur] = Fetched]
                 /\ modules' = IF IsBuiltin(v) THEN modules
                               ELSE InjectParent(modules, v.module, v.index, Cur)
                 /\ UNCHANGED <<input, executor_stack, out, retval, error, host_vars>>

\* the final else of RunnableContext.step
StepUnknown ==
    /\ Running
    /\ ~ByteStream_over(Self.bs)
    /\ Self.bs.arr[Self.bs.idx + 1] \notin Implemented
    /\ Raise("NotImplementedError", Fetched)

-----------------------------------------------------------------------------
(* The programs the virtual machine is run on                              *)

name_main == <<1043, 1083, 1072, 1074, 1085, 1099, 1081>>
n_a == <<97>>
n_b == <<98>>
n_c == <<99>>
n_f == <<102>>
n_g == <<103>>
n_h == <<104>>
n_i == <<105>>
n_k == <<107>>
n_r == <<114>>
n_x == <<120>>
n_y == <<121>>

Lit(n) == ConstNode(CInt(n))
Var(name) == IdenNode(name)
Let(name, value) == AssignNode(IdenNode(name), value)
Call0(name) == CallNode(IdenNode(name), <<>>)
Header == ModuleDeclNode(<<name_main>>)

\* f = proc() g = proc() end; end;  then f() once or twice          (named = FALSE)
\* g = proc() end; f = proc() h = proc() end; end; f();             (named = TRUE)
ClosureProgram(d) ==
    IF d.named
    THEN <<Header,
           Let(n_g, AnonProcDeclNode(<<>>, <<>>)),
           Let(n_f, AnonProcDeclNode(<<>>, <<Let(n_h, AnonProcDeclNode(<<>>, <<>>))>>)),
           DiscardNode(Call0(n_f))>>
    ELSE <<Header,
           Let(n_f, AnonProcDeclNode(<<>>, <<Let(n_g, AnonProcDeclNode(<<>>, <<>>))>>))>>
         \o [i \in 1..d.a |-> DiscardNode(Call0(n_f))]

\* x = a; f = proc() x = b; end; f();
AssignProgram(d) ==
    <<Header,
      Let(n_x, Lit(d.a)),
      Let(n_f, AnonProcDeclNode(<<>>, <<Let(n_x, Lit(d.b))>>)),
      DiscardNode(Call0(n_f))>>

\* programs that read a name bound in different places of the scope chain
GetShapes == 1..6
GetProgram(d) ==
    CASE d.shape = 1 ->
           \* x = a; f = proc() return x; end; g = proc() x = b; return f(); end; r = g();
           <<Header,
             Let(n_x, Lit(d.a)),
             Let(n_f, AnonProcDeclNode(<<>>, <<ReturnNode(Var(n_x))>>)),
             Let(n_g, AnonProcDeclNode(<<>>, <<Let(n_x, Lit(d.b)), ReturnNode(Call0(n_f))>>)),
             Let(n_r, Call0(n_g))>>
      [] d.shape = 2 ->
           \* f = proc() x = a; h = proc() k = proc() return x; end; return k(); end;
           \*            return h(); end;  r = f();
           <<Header,
             Let(n_f, AnonProcDeclNode(<<>>,
                 <<Let(n_x, Lit(d.a)),
                   Let(n_h, AnonProcDeclNode(<<>>,
                       <<Let(n_k, AnonProcDeclNode(<<>>, <<ReturnNode(Var(n_x))>>)),
                         ReturnNode(Call0(n_k))>>)),
                   ReturnNode(Call0(n_h))>>)),
             Let(n_r, Call0(n_f))>>
      [] d.shape = 3 ->
           \* x = a; r = y;
           <<Header, Let(n_x, Lit(d.a)), Let(n_r, Var(n_y))>>
      [] d.shape = 4 ->
           \* x = a; f = proc(x) return x; end; r = f(b);
           <<Header,
             Let(n_x, Lit(d.a)),
             Let(n_f, AnonProcDeclNode(<<n_x>>, <<ReturnNode(Var(n_x))>>)),
             Let(n_r, CallNode(Var(n_f), <<Lit(d.b)>>))>>
      [] d.shape = 5 ->
           \* f = proc() return <print>; end; r = f(); <print> = a; r = f();
           <<Header,
             Let(n_f, AnonProcDeclNode(<<>>, <<ReturnNode(Var(name_tell))>>)),
             Let(n_r, Call0(n_f)),
             Let(name_tell, Lit(d.a)),
             Let(n_r, Call0(n_f))>>
      [] d.shape = 6 ->
           \* f = proc(x) g = proc() return x; end; return g; end;
           \* h = f(a); k = f(b); r = h();
           <<Header,
             Let(n_f, AnonProcDeclNode(<<n_x>>,
                 <<Let(n_g, AnonProcDeclNode(<<>>, <<ReturnNode(Var(n_x))>>)),
                   ReturnNode(Var(n_g))>>)),
             Let(n_h, CallNode(Var(n_f), <<Lit(d.a)>>)),
             Let(n_k, CallNode(Var(n_f), <<Lit(d.b)>>)),
             Let(n_r, Call0(n_h))>>

ParamNames == <<n_a, n_b, n_c, n_h, n_k>>

\* the argument expressions of the probed calls and the value each denotes
ArgKinds == {"one", "two", "user", "native"}
ArgExpr(kind) ==
    CASE kind = "one" -> Lit(1)
      [] kind = "two" -> Lit(2)
      [] kind = "user" -> Call0(n_g)
      [] kind = "native" -> Call0(name_tell)
ArgValue(kind) ==
    CASE kind = "one" -> Number(1)
      [] kind = "two" -> Number(2)
      [] kind = "user" -> Number(7)
      [] kind = "native" -> NIL

\* g = proc() return 7; end; f = proc(a, b, ..) end; f(args);   (named = FALSE)
\* g = proc() return 7; end; <print>(args);                     (named = TRUE)
CallProgram(d) ==
    <<Header,
      Let(n_g, AnonProcDeclNode(<<>>, <<ReturnNode(Lit(7))>>)),
      Let(n_f, AnonProcDeclNode(SubSeq(ParamNames, 1, Len(d.args)), <<>>)),
      DiscardNode(CallNode(Var(IF d.named THEN name_tell ELSE n_f),
                           [i \in 1..Len(d.args) |-> ArgExpr(d.args[i])]))>>

\* i = 0; while i < n: i = i + 1; end
WhileProgram(d) ==
    <<Header,
      Let(n_i, Lit(0)),
      WhileNode(BinOpNode(Var(n_i), "Lt", Lit(d.a)),
                <<Let(n_i, BinOpNode(Var(n_i), "Add", Lit(1)))>>)>>

\* proc f(a, b) return a + b; end  (named) or  f = proc(a, b) return a + b; end;
\* then r = f(x, y);
AddProgram(d) ==
    LET body == <<ReturnNode(BinOpNode(Var(n_a), "Add", Var(n_b)))>> IN
    <<Header,
      IF d.named THEN NamedProcStatement(n_f, <<n_a, n_b>>, body)
      ELSE Let(n_f, AnonProcDeclNode(<<n_a, n_b>>, body)),
      Let(n_r, CallNode(Var(n_f), <<Lit(d.a), Lit(d.b)>>))>>

\* f = proc(<a parameters>) x = 1; end; f(<b arguments>);
ArityProgram(d) ==
    <<Header,
      Let(n_f, AnonProcDeclNode(SubSeq(ParamNames, 1, d.a), <<Let(n_x, Lit(1))>>)),
      DiscardNode(CallNode(Var(n_f), [i \in 1..d.b |-> Lit(i)]))>>

\* h = proc(a, g) return a; end;
\* f = proc(a, g) x = a; r = g(<b>, h); y = x; end;
\* r = f(<a>, f); r = f(<b>, h);
\* f is active twice at once (it is its own argument g), then once more
RecurProgram(d) ==
    <<Header,
      Let(n_h, AnonProcDeclNode(<<n_a, n_g>>, <<ReturnNode(Var(n_a))>>)),
      Let(n_f, AnonProcDeclNode(<<n_a, n_g>>,
          <<Let(n_x, Var(n_a)),
            Let(n_r, CallNode(Var(n_g), <<Lit(d.b), Var(n_h)>>)),
            Let(n_y, Var(n_x))>>)),
      Let(n_r, CallNode(Var(n_f), <<Lit(d.a), Var(n_f)>>)),
      Let(n_r, CallNode(Var(n_f), <<Lit(d.b), Var(n_h)>>))>>

\* the operands of the arithmetic programs: Numbers 0..MaxNum and, as MaxNum + 1,
\* the String "a"
Operand(n) == IF n <= MaxNum THEN CInt(n) ELSE CStr(n_a)
OperandValue(n) == IF n <= MaxNum THEN Number(n) ELSE String(n_a)

\* a module of hand-written bytecode: NOP; PUSH_CONST a; PUSH_CONST b; <op>; RETURN
ArithModule(d) ==
    LET p1 == push_const(<<>>, Operand(d.a))
        p2 == push_const(p1.const_pool, Operand(d.b))
    IN [named |-> TRUE, name |-> name_main, const_pool |-> p2.const_pool, compiled |-> TRUE,
        bytecode |-> <<NOP, PUSH_CONST>> \o Encoder_int32(p1.index) \o <<PUSH_CONST>>
                     \o Encoder_int32(p2.index) \o <<d.op, RETURN>>]

\* a module of hand-written bytecode whose procedure body is d.a pushes and a
\* RETURN; the body is the root code (shape 0) or the code of a Runnable that
\* the root code invokes (shape 1)
ReturnModule(d) ==
    LET p1 == push_const(<<>>, CInt(5))
        body == IF d.a = 0 THEN <<RETURN>>
                ELSE <<PUSH_CONST>> \o Encoder_int32(p1.index) \o <<RETURN>>
        p2 == push_const(p1.const_pool, RunnableEntry(<<>>, body))
    IN IF d.shape = 0
       THEN [named |-> TRUE, name |-> name_main, const_pool |-> p1.const_pool,
             compiled |-> TRUE, bytecode |-> body]
       ELSE [named |-> TRUE, name |-> name_main, const_pool |-> p2.const_pool,
             compiled |-> TRUE,
             bytecode |-> <<PUSH_CONST>> \o Encoder_int32(p2.index) \o <<INVOKE>>
                          \o Encoder_int16(0) \o <<RETURN>>]

\* the families of hand-written modules
HandWritten == {"arith", "return"}

Descriptor(family, shape, a, b, args, named, op) ==
    [family |-> family, shape |-> shape, a |-> a, b |-> b, args |-> args, named |-> named,
     op |-> op]

Inputs ==
    {Descriptor("closure", 0, a, 0, <<>>, FALSE, 0) : a \in 1..2}
    \cup {Descriptor("closure", 0, 0, 0, <<>>, TRUE, 0)}
    \cup {Descriptor("assign", 0, a, b, <<>>, FALSE, 0) : a \in 0..MaxNum, b \in 0..MaxNum}
    \cup {Descriptor("get", s, a, b, <<>>, FALSE, 0) : s \in GetShapes, a \in 0..1, b \in 2..3}
    \cup {Descriptor("call", 0, 0, 0, args, named, 0) :
             args \in UNION {[1..n -> ArgKinds] : n \in 1..MaxArgs}, named \in BOOLEAN}
    \cup {Descriptor("while", 0, n, 0, <<>>, FALSE, 0) : n \in 0..MaxN}
    \cup {Descriptor("add", 0, a, b, <<>>, named, 0) :
             a \in 0..MaxNum, b \in 0..MaxNum, named \in BOOLEAN}
    \cup {Descriptor("arity", 0, a, b, <<>>, FALSE, 0) : a \in 0..MaxArgs, b \in 0..MaxArgs}
    \cup {Descriptor("recur", 0, a, b, <<>>, FALSE, 0) : a \in 0..1, b \in 2..3}
    \cup {Descriptor("return", s, a, 0, <<>>, FALSE, 0) : s \in 0..1, a \in 0..1}
    \cup {Descriptor("arith", 0, a, b, <<>>, FALSE, op) :
             a \in 0..(MaxNum + 1), b \in 0..(MaxNum + 1), op \in {ADD, MULTIPLY, SUB, DIV}}

Program(d) ==
    CASE d.family = "closure" -> ClosureProgram(d)
      [] d.family = "assign" -> AssignProgram(d)
      [] d.family = "get" -> GetProgram(d)
      [] d.family = "call" -> CallProgram(d)
      [] d.family = "while" -> WhileProgram(d)
      [] d.family = "add" -> AddProgram(d)
      [] d.family = "arity" -> ArityProgram(d)
      [] d.family = "recur" -> RecurProgram(d)

\* Compiler.module_cache once the Module m of input d exists: the hand-written
\* modules are in no cache
CacheOf(d, m) == IF d.family \in HandWritten THEN NoModules ELSE (m.name :> m)

\* the Module the toolchain hands to the virtual machine for input d
Compiled(d) ==
    IF d.family = "arith" THEN ArithModule(d)
    ELSE IF d.family = "return" THEN ReturnModule(d)
    ELSE compile_module(NoModules, Program(d)).m

-----------------------------------------------------------------------------
(* The virtual machine running one loaded module                           *)

\* the state after VM() and VM.load_from_bytes(thing): m is the Module the
\* stream thing was made from
Loaded(d, m, thing) ==
    LET done(loaded) ==
            /\ input = d
            /\ modules = loaded.modules
            /\ error = loaded.err
            /\ executor_stack = <<>>
            /\ ctxs = <<>>
            /\ out = <<>>
            /\ retval = NIL
            /\ mod = m
            /\ issued = <<>>
            /\ stream = thing
            /\ module_cache = CacheOf(d, m)
            /\ pc = "loaded"
    IN done(load_from_bytes(NoWLModules, thing))

Init ==
    \E d \in Inputs :
        LET made(m) == Loaded(d, m, Image(m)) IN made(Compiled(d))

Next ==
    \/ executor_solo
    \/ StepOver
    \/ StepNOP
    \/ StepPUSH_CONST
    \/ StepSET
    \/ StepGET
    \/ StepINVOKE
    \/ StepDISCARD
    \/ StepMULTIPLY
    \/ StepADD
    \/ StepRETURN
    \/ StepINJECT_PARENT_SCOPE
    \/ StepUnknown

Spec == Init /\ [][Next]_vars

-----------------------------------------------------------------------------
(* The codec: a compiled Module is dumped and the bytes are loaded         *)

\* the programs the compiler turns into a Module
CodecInputs == {d \in Inputs : d.family \notin HandWritten}

\* the state after m = Compiler().compile_module(..) and VM()
CompiledState(d, m) ==
    /\ input = d
    /\ modules = NoWLModules
    /\ error = ""
    /\ executor_stack = <<>>
    /\ ctxs = <<>>
    /\ out = <<>>
    /\ retval = NIL
    /\ mod = m
    /\ issued = <<>>
    /\ stream = <<>>
    /\ module_cache = CacheOf(d, m)
    /\ pc = "compiled"

InitCodec ==
    \E d \in CodecInputs :
        LET made(m) == CompiledState(d, m) IN made(Compiled(d))

\* stream = mod.dump(); the Module in the cache is the object dump changes
DumpModule ==
    /\ pc = "compiled"
    /\ LET dumped(r) == /\ mod' = r.m
                        /\ stream' = r.bytes
                        /\ error' = r.err
       IN dumped(Module_dump(mod))
    /\ module_cache' = CacheOf(input, Module_dump(mod).m)
    /\ pc' = "dumped"
    /\ UNCHANGED <<input, modules, executor_stack, ctxs, out, retval, issued>>

\* vm.load_from_bytes(stream)
LoadStream ==
    /\ pc = "dumped" /\ error = ""
    /\ LET loaded(r) == /\ modules' = r.modules
                        /\ error' = r.err
       IN loaded(load_from_bytes(modules, stream))
    /\ pc' = "loaded"
    /\ UNCHANGED <<input, executor_stack, ctxs, out, retval, compiler_vars>>

NextCodec ==
    \/ DumpModule
    \/ LoadStream

SpecCodec == InitCodec /\ [][NextCodec]_vars

-----------------------------------------------------------------------------
(* The constant pool: the push_const calls of one compile                  *)

\* the constants pushed: literals, names and RunnableEntry objects
PoolConsts ==
    {CInt(0), CInt(1), CStr(n_a), CStr(n_b),
     RunnableEntry(<<>>, <<>>), RunnableEntry(<<n_a>>, <<>>),
     RunnableEntry(<<>>, <<PUSH_NIL, RETURN>>)}

\* the state after Module()
InitPool ==
    /\ input = Descriptor("pool", 0, 0, 0, <<>>, FALSE, 0)
    /\ modules = NoWLModules
    /\ error = ""
    /\ executor_stack = <<>>
    /\ ctxs = <<>>
    /\ out = <<>>
    /\ retval = NIL
    /\ mod = NewModule
    /\ issued = <<>>
    /\ stream = <<>>
    /\ module_cache = NoModules
    /\ pc = "compiling"

\* one call self.module_stack[-1].push_const(const) of a visit_node_* method
PushConst ==
    /\ pc = "compiling"
    /\ Len(issued) < MaxPushes
    /\ \E const \in PoolConsts :
          LET pushed(p) == /\ mod' = [mod EXCEPT !.const_pool = p.const_pool]
                           /\ issued' = Append(issued, [const |-> const, index |-> p.index])
          IN pushed(push_const(mod.const_pool, const))
    /\ UNCHANGED <<input, modules, executor_stack, ctxs, out, retval, error, stream,
                   module_cache, pc>>

NextPool == PushConst

SpecPool == InitPool /\ [][NextPool]_vars

-----------------------------------------------------------------------------
(* The module cache: the compile_module calls made on one Compiler         *)

\* the module names declared: a, b and the dotted a.b
ModNames == <<(<<n_a>>), (<<n_b>>), (<<n_a, n_b>>)>>

\* the module sources compiled, by the place of their ModuleDeclNode:
\*   0  x = b;                        (no module declaration)
\*   1  module <a>; x = b;
\*   2  module <a>; module <next of a>; x = b;
\*   3  module <a>; for x in 0: end   (visit_node_ForNode raises)
\*   4  f = proc() module <a>; end; x = b;
ModuleShapes == 0..4
ModuleAst(d) ==
    LET decl == ModuleDeclNode(ModNames[d.a])
        next == ModuleDeclNode(ModNames[(d.a % Len(ModNames)) + 1])
        body == Let(n_x, Lit(d.b))
    IN CASE d.shape = 0 -> <<body>>
         [] d.shape = 1 -> <<decl, body>>
         [] d.shape = 2 -> <<decl, next, body>>
         [] d.shape = 3 -> <<decl, ForNode(n_x, Lit(0), <<>>)>>
         [] d.shape = 4 -> <<Let(n_f, AnonProcDeclNode(<<>>, <<decl>>)), body>>

ModuleInputs ==
    {Descriptor("module", s, a, b, <<>>, FALSE, 0) :
        s \in ModuleShapes, a \in 1..Len(ModNames), b \in 0..1}

\* the state after Compiler()
InitCompiler ==
    /\ input = Descriptor("module", 0, 1, 0, <<>>, FALSE, 0)
    /\ modules = NoWLModules
    /\ error = ""
    /\ executor_stack = <<>>
    /\ ctxs = <<>>
    /\ out = <<>>
    /\ retval = NIL
    /\ mod = NewModule
    /\ issued = <<>>
    /\ stream = <<>>
    /\ module_cache = NoModules
    /\ pc = "compiler"

\* mod = compiler.compile_module(module_ast), on the same Compiler as the calls
\* before it; error is the exception this call raised
CompileModule ==
    /\ pc = "compiler"
    /\ \E d \in ModuleInputs :
          LET compiled(r) == /\ input' = d
                             /\ error' = r.err
                             /\ mod' = IF r.err = "" THEN r.m ELSE mod
                             /\ module_cache' = r.module_cache
          IN compiled(compile_module(module_cache, ModuleAst(d)))
    /\ UNCHANGED <<modules, executor_stack, ctxs, out, retval, issued, stream, pc>>

NextCompiler == CompileModule

SpecCompiler == InitCompiler /\ [][NextCompiler]_vars

-----------------------------------------------------------------------------
(* The loader: VM.load_from_bytes on well-formed and damaged streams       *)

\* module <main>; x = b; f = proc(a) return a; end;   a module whose pool
\* holds an INT, a STRING and a RUNNABLE entry
StreamProgram(d) ==
    <<Header,
      Let(n_x, Lit(d.b)),
      Let(n_f, AnonProcDeclNode(<<n_a>>, <<ReturnNode(Var(n_a))>>))>>

\* where load_from_bytes reads the tag of the first pool entry of Image(m):
\* after the magic, the module count, the module name and the pool count
TagOffset(m) == Len(MAGIC \o Encoder_int32(1) \o Encoder_str(m.name) \o Encoder_int32(0))

\* a tag load_from_bytes has no branch for
UnknownTag == ConstEntry_RUNNABLE + 1

\* the streams handed to the loader: the image of m, the image cut after its
\* first d.a bytes, the image with its first byte changed, and the image with
\* the tag of its first pool entry changed to FLOAT or to an unassigned value
StreamKinds == {"whole", "truncated", "magic", "tag"}
StreamOf(d, m) ==
    CASE d.shape = "whole" -> Image(m)
      [] d.shape = "truncated" -> SubSeq(Image(m), 1, d.a)
      [] d.shape = "magic" -> [Image(m) EXCEPT ![1] = (@ + d.a) % 256]
      [] d.shape = "tag" ->
            [Image(m) EXCEPT ![TagOffset(m) + 1] =
                IF d.a = 0 THEN ConstEntry_FLOAT ELSE UnknownTag]

StreamModule(d) == compile_module(NoModules, StreamProgram(d)).m

\* the values of d.a for each kind of stream made from m
StreamCuts(kind, m) ==
    CASE kind = "whole" -> {0}
      [] kind = "truncated" -> 0..(Len(Image(m)) - 1)
      [] kind = "magic" -> 1..2
      [] kind = "tag" -> 0..1

\* the state after VM(), with the bytes of input d at hand
StreamState(d, m) ==
    /\ input = d
    /\ modules = NoWLModules
    /\ error = ""
    /\ executor_stack = <<>>
    /\ ctxs = <<>>
    /\ out = <<>>
    /\ retval = NIL
    /\ mod = m
    /\ issued = <<>>
    /\ stream = StreamOf(d, m)
    /\ module_cache = (m.name :> m)
    /\ pc = "dumped"

InitLoader ==
    \E kind \in StreamKinds, b \in 0..1 :
        LET made(m) ==
                \E a \in StreamCuts(kind, m) :
                    StreamState(Descriptor("stream", kind, a, b, <<>>, FALSE, 0), m)
        IN made(StreamModule([b |-> b]))

NextLoader == LoadStream

SpecLoader == InitLoader /\ [][NextLoader]_vars

-----------------------------------------------------------------------------
(* The loop compiler: compile_module on modules holding one while loop     *)

RECURSIVE CondExpr(_)
\* a condition of k operands:  i < 2 < .. < k
CondExpr(k) == IF k = 1 THEN Var(n_i) ELSE BinOpNode(CondExpr(k - 1), "Lt", Lit(k))

\* the statements before the loop, and the statements of its body
LoopPrefix(d) == [j \in 1..d.shape |-> Let(n_i, Lit(0))]
LoopBody(d) == [j \in 1..d.b |-> Let(n_i, BinOpNode(Var(n_i), "Add", Lit(1)))]

\* module <main>; [i = 0;] while <a operands>: <b statements> end
LoopProgram(d) ==
    <<Header>> \o LoopPrefix(d) \o <<WhileNode(CondExpr(d.a), LoopBody(d))>>

LoopInputs ==
    {Descriptor("loop", s, a, b, <<>>, FALSE, 0) :
        s \in 0..1, a \in 1..MaxCond, b \in 0..MaxBody}

\* the state after Compiler(), with the source d at hand
InitLoop ==
    /\ input \in LoopInputs
    /\ modules = NoWLModules
    /\ error = ""
    /\ executor_stack = <<>>
    /\ ctxs = <<>>
    /\ out = <<>>
    /\ retval = NIL
    /\ mod = NewModule
    /\ issued = <<>>
    /\ stream = <<>>
    /\ module_cache = NoModules
    /\ pc = "source"

\* mod = compiler.compile_module(module_ast) for the loop program of input
CompileLoop ==
    /\ pc = "source"
    /\ LET compiled(r) == /\ error' = r.err
                          /\ mod' = r.m
                          /\ module_cache' = r.module_cache
       IN compiled(compile_module(module_cache, LoopProgram(input)))
    /\ pc' = "compiled"
    /\ UNCHANGED <<input, modules, executor_stack, ctxs, out, retval, issued, stream>>

NextLoop == CompileLoop

SpecLoop == InitLoop /\ [][NextLoop]_vars

-----------------------------------------------------------------------------
(* The integer codec: Encoder.varint written, ByteStream.varint read       *)

VarintInputs ==
    {Descriptor("varint", 0, i, 0, <<>>, FALSE, 0) : i \in (-(MaxVarint + 1))..MaxVarint}

\* the bytes that follow the integer in the stream: the tag of a next entry
Trailer == <<ConstEntry_STRING>>

\* the integer input.a is at hand, nothing written yet
InitVarint ==
    /\ input \in VarintInputs
    /\ modules = NoWLModules
    /\ error = ""
    /\ executor_stack = <<>>
    /\ ctxs = <<>>
    /\ out = <<>>
    /\ retval = NIL
    /\ mod = NewModule
    /\ issued = <<>>
    /\ stream = <<>>
    /\ module_cache = NoModules
    /\ pc = "value"

\* result.extend(Encoder.varint(entry)), and the stream goes on
WriteVarint ==
    /\ pc = "value"
    /\ stream' = Encoder_varint(input.a) \o Trailer
    /\ pc' = "written"
    /\ UNCHANGED <<input, modules, executor_stack, ctxs, out, retval, error, mod, issued,
                   module_cache>>

\* s = ByteStream(stream); s.varint(): out is the value read and s.idx
ReadVarint ==
    /\ pc = "written"
    /\ LET read(v) == /\ error' = v.err
                      /\ out' = <<[val |-> v.val, idx |-> v.s.idx]>>
       IN read(ByteStream_varint(ByteStream(stream)))
    /\ pc' = "read"
    /\ UNCHANGED <<input, modules, executor_stack, ctxs, retval, mod, issued, stream,
                   module_cache>>

NextVarint ==
    \/ WriteVarint
    \/ ReadVarint

SpecVarint == InitVarint /\ [][NextVarint]_vars

-----------------------------------------------------------------------------
(* Properties                                                              *)

\* the run of VM.executor_solo has completed without an exception
Ended == pc = "running" /\ error = "" /\ executor_stack = <<>>

\* the locals of the root activation
RootLocals == ctxs[1].localsx

\* a loaded constant pool entry equals the Module's: same tag, same value
SameEntry(loaded, entry) ==
    IF entry.tag = "runnable"
    THEN loaded.tag = "runnable" /\ loaded.args = entry.args
                                 /\ loaded.bytecode = entry.bytecode
    ELSE loaded = entry

\* C1: once the bytes Module.dump produced for a compiled Module m have been
\* read back by VM.load_from_bytes, the load has succeeded and the VM holds a
\* module with m's name, m's constant pool (same order, same tag and value per
\* entry) and m's bytecode as its root bytecode.
C1_RoundTrip ==
    pc = "loaded" =>
        /\ error = ""
        /\ mod.name \in DOMAIN modules
        /\ LET w == modules[mod.name] IN
             /\ w.name = mod.name
             /\ Len(w.constpool) = Len(mod.const_pool)
             /\ \A i \in DOMAIN w.constpool : SameEntry(w.constpool[i], mod.const_pool[i])
             /\ w.root_runnable.bytecode = mod.bytecode

\* C2: the parent_scope (capturedScope) of a Runnable, once set, is changed by
\* no later step of the run.
C2_CapturedOnce ==
    [][\A module \in DOMAIN modules : \A i \in DOMAIN modules[module].constpool :
          (/\ modules[module].constpool[i].tag = "runnable"
           /\ modules[module].constpool[i].parent_scope # 0)
          => modules'[module].constpool[i].parent_scope
               = modules[module].constpool[i].parent_scope]_vars

\* the pool index operand of the instruction about to be executed
OperandPtr == from_bytes(Slice(Self.bs.arr, Self.bs.idx + 1, 4))

\* the dictionary key the SET about to be executed stores under
SetKey == LocalKey(Self.module, OperandPtr, Pool[OperandPtr + 1])

\* the outcome of  x = a; f = proc() x = b; end; f();
AssignOutcome ==
    (input.family = "assign" /\ Ended) =>
        /\ Len(ctxs) = 2
        /\ RootLocals[CStr(n_x)] = Number(input.a)
        /\ ctxs[2].localsx = (CStr(n_x) :> Number(input.b))
        /\ \A module \in DOMAIN modules : modules[module].globals = defaults

\* C3: a step that executes SET changes no activation but the one executing
\* it and no module (so no globals); unless it fails, the executing
\* activation's locals afterwards are its locals before with the name bound to
\* the value popped.  When the outer activation has x = a and the closure it
\* created executes x = b, after the run the outer x is a, the closure's locals
\* are exactly x = b and the globals are the builtins.
C3_SetWritesOwnLocals ==
    [][/\ Fetch(SET) =>
            /\ DOMAIN ctxs' = DOMAIN ctxs
            /\ \A i \in DOMAIN ctxs : i # Cur => ctxs'[i] = ctxs[i]
            /\ modules' = modules
            /\ error' = "" =>
                 /\ ctxs'[Cur].stack = Pop(Self.stack)
                 /\ DOMAIN ctxs'[Cur].localsx
                      = DOMAIN Self.localsx \cup {SetKey}
                 /\ ctxs'[Cur].localsx[SetKey] = Top(Self.stack)
                 /\ \A k \in DOMAIN Self.localsx :
                       k # SetKey => ctxs'[Cur].localsx[k] = Self.localsx[k]
       /\ AssignOutcome']_vars

\* C3 witness: the closure has run x = b with b # a and has returned; the outer
\* activation still holds x = a
C3_Witness ==
    /\ input.family = "assign" /\ input.a # input.b /\ Ended
    /\ Len(ctxs) = 2 /\ ctxs[2].parent = 1
    /\ RootLocals[CStr(n_x)] = Number(input.a)
    /\ ctxs[2].localsx[CStr(n_x)] = Number(input.b)

\* the binding the resolution order gives r in each of the get programs: the
\* lexical x of f, not the caller's (1); x two parents up (2); the parameter
\* that shadows the outer x (4); the root activation's local, found before the
\* builtin of the same name (5); the x of the activation that created the
\* closure, f(a), not of the later activation f(b) (6)
ExpectedBinding(d) ==
    CASE d.shape \in {1, 2, 5, 6} -> Number(d.a)
      [] d.shape = 4 -> Number(d.b)

\* C4: in the get programs the run does not fail and r ends as the binding
\* found first in locals, then the lexical parent chain (the capturing
\* activation, never the caller), then the globals; the GET of the unbound name
\* (shape 3) fails with KeyError and pushes nothing.
C4_GetResolves ==
    input.family = "get" =>
        IF input.shape = 3
        THEN /\ ~Ended
             /\ error # "" => (error = "KeyError" /\ ctxs[1].stack = <<>>)
        ELSE /\ error = ""
             /\ Ended => RootLocals[CStr(n_r)] = ExpectedBinding(input)

\* C5: in the call programs the user procedure f is entered with its
\* parameters bound to the values of the argument expressions in their order,
\* and the builtin is called with exactly those values in that order.
C5_ArgsInOrder ==
    input.family = "call" =>
        /\ ~input.named =>
              \A i \in DOMAIN ctxs : (i # 1 /\ DOMAIN ctxs[i].localsx # {}) =>
                  \A j \in DOMAIN input.args :
                      ctxs[i].localsx[CStr(ParamNames[j])] = ArgValue(input.args[j])
        /\ (input.named /\ Ended) =>
              /\ out # <<>>
              /\ out[Len(out)] = [j \in DOMAIN input.args |-> ArgValue(input.args[j])]

\* the step is an INVOKE that pushes a new activation
Called ==
    /\ Fetch(INVOKE)
    /\ Len(executor_stack') = Len(executor_stack)
    /\ Len(executor_stack'[Len(executor_stack')]) = Len(Ex) + 1

\* the step ends the top activation and resumes the caller below it
Returned ==
    /\ Running
    /\ Len(Ex) > 1
    /\ Len(executor_stack') = Len(executor_stack)
    /\ Len(executor_stack'[Len(executor_stack')]) = Len(Ex) - 1

\* the caller's stack just before an INVOKE with the callee and the argc
\* arguments removed
CallerBase ==
    SubSeq(Self.stack, 1,
           Len(Self.stack) - 1 - from_bytes(Slice(Self.bs.arr, Self.bs.idx + 1, 2)))

\* C6: an INVOKE of a user Runnable leaves the caller's stack as it was with
\* the callee and the arguments removed; while the callee is on top no activation
\* below it changes; the step that ends the callee pops it and adds exactly its
\* return value to the caller's stack.  Together: when the callee ends, the
\* caller's stack is its stack from before the INVOKE without callee and
\* arguments plus the one return value.
C6_CallReturn ==
    [][/\ Called => ctxs'[Cur].stack = CallerBase
       /\ (Running /\ Len(Ex) > 1 /\ ~Returned) =>
             \A k \in 1..(Len(Ex) - 1) : ctxs'[Ex[k]] = ctxs[Ex[k]]
       /\ Returned =>
             ctxs'[Ex[Len(Ex) - 1]].stack = Append(ctxs[Ex[Len(Ex) - 1]].stack, retval')]_vars

\* C7: the run of  i = 0; while i < n: i = i + 1; end  does not fail and ends
\* with the root activation's i equal to n (each execution of the body adds 1
\* to i, so the body has then run n times).
C7_WhileRuns ==
    input.family = "while" =>
        /\ error = ""
        /\ Ended => (CStr(n_i) \in DOMAIN RootLocals /\ RootLocals[CStr(n_i)] = Number(input.a))

\* C8: the run of a module that declares f(a, b) returning a + b and calls
\* r = f(x, y) does not fail, and ends with r the Number x + y and no context
\* left on the executor's stack.
C8_CallYieldsSum ==
    input.family = "add" =>
        /\ error = ""
        /\ (pc = "running" /\ executor_stack = <<>>) =>
              (CStr(n_r) \in DOMAIN RootLocals
                 /\ RootLocals[CStr(n_r)] = Number(input.a + input.b))

\* the arithmetic result of the opcode op over the Numbers a and b
Arithmetic(op, a, b) ==
    CASE op = ADD -> a + b
      [] op = MULTIPLY -> a * b
      [] op = SUB -> a - b
      [] op = DIV -> a \div b

\* C9: once the arithmetic instruction of  PUSH a; PUSH b; <op>  has been
\* executed: with two Numbers nothing has failed and the one value on the stack
\* (returned by the RETURN that follows) is the Number a <op> b; with an operand
\* that is not a Number the run has failed.  (Division by 0 is left open.)
C9_Arithmetic ==
    (input.family = "arith" /\ pc = "running" /\ ctxs[1].bs.idx >= 12
       /\ ~(input.op = DIV /\ input.b = 0)) =>
        IF input.a <= MaxNum /\ input.b <= MaxNum
        THEN /\ error = ""
             /\ IF ctxs[1].bs.idx = 12
                THEN ctxs[1].stack = <<Number(Arithmetic(input.op, input.a, input.b))>>
                ELSE retval = Number(Arithmetic(input.op, input.a, input.b))
        ELSE error # ""

\* C10: during a compile the constant pool holds no two equal entries, every
\* index push_const returned still denotes the constant it was returned for,
\* and the pool has grown by one entry per distinct constant pushed (a push of
\* an equal value left it unchanged).
C10_PoolDedup ==
    pc = "compiling" =>
        /\ \A i, j \in DOMAIN mod.const_pool :
              mod.const_pool[i] = mod.const_pool[j] => i = j
        /\ \A k \in DOMAIN issued :
              /\ issued[k].index < Len(mod.const_pool)
              /\ mod.const_pool[issued[k].index + 1] = issued[k].const
        /\ Len(mod.const_pool) = Cardinality({issued[k].const : k \in DOMAIN issued})

\* C10 witness: a RunnableEntry is pushed, then a literal, then an equal
\* RunnableEntry: the third push returned the first index and added nothing
C10_Witness ==
    /\ pc = "compiling" /\ Len(issued) = 3
    /\ issued[1] = [const |-> RunnableEntry(<<n_a>>, <<>>), index |-> 0]
    /\ issued[2] = [const |-> CInt(1), index |-> 1]
    /\ issued[3] = [const |-> RunnableEntry(<<n_a>>, <<>>), index |-> 0]
    /\ Len(mod.const_pool) = 2

\* the name the ModuleDeclNodes of module source d leave on the Module: the last
\* one visited, wherever it stands; none for shape 0
HasDeclaredName(d) == d.shape # 0
DeclaredName(d) ==
    Join(ModNames[IF d.shape = 2 THEN (d.a % Len(ModNames)) + 1 ELSE d.a], dot)

\* C11: a compile_module call on a source without module declaration fails, and
\* so does one on a source whose name is already in the module cache; both leave
\* the cache as it was, and every module in the cache is named and stored under
\* its own name.
C11_CacheGuarded ==
    [][pc = "compiler" =>
        /\ ~HasDeclaredName(input') =>
               error' # "" /\ module_cache' = module_cache
        /\ (HasDeclaredName(input') /\ DeclaredName(input') \in DOMAIN module_cache) =>
               error' # "" /\ module_cache' = module_cache
        /\ \A n \in DOMAIN module_cache' :
               module_cache'[n].named /\ module_cache'[n].name = n]_vars

\* a second module named like a cached one, with another constant pool, was
\* refused and the cached one is still there
C11_Witness ==
    /\ pc = "compiler"
    /\ input.shape = 1
    /\ error = "AssertionError"
    /\ DeclaredName(input) \in DOMAIN module_cache
    /\ module_cache[DeclaredName(input)].const_pool
           # compile_module(NoModules, ModuleAst(input)).m.const_pool

Callee == Top(Self.stack)
CalleeParams == modules[Callee.module].constpool[Callee.index + 1].args
Argc == from_bytes(Slice(Self.bs.arr, Self.bs.idx + 1, 2))
InvokesUser ==
    /\ Fetch(INVOKE)
    /\ Len(Self.stack) > Argc
    /\ Callee.object_type = "Runnable"
    /\ ~IsBuiltin(Callee)

\* C13: an INVOKE of a user Runnable with an argument count other than the
\* number of its parameters raises: the context stack keeps its activations, no
\* activation is created, and nothing runs after the error.
C13_ArityChecked ==
    [][/\ (InvokesUser /\ Argc # Len(CalleeParams)) =>
              /\ error' # ""
              /\ executor_stack' = executor_stack
              /\ Len(ctxs') = Len(ctxs)
       /\ error = ""]_vars

\* f declared with a parameters was invoked with b # a arguments: the run has
\* stopped right after the INVOKE, in the root activation
C13_Witness ==
    /\ input.family = "arity"
    /\ input.a # input.b
    /\ error = "AssertionError"
    /\ executor_stack = << <<1>> >>
    /\ Len(ctxs) = 1
    /\ ctxs[1].bs.arr[ctxs[1].bs.idx - 2] = INVOKE

\* the SET about to run is the setter of an AssignAndReturnNode: the byte
\* before it is the DUP that visit_node_AssignAndReturnNode emits
SetsAfterDup == Fetch(SET) /\ Self.bs.idx > 0 /\ Self.bs.arr[Self.bs.idx] = DUP

\* C14: in the run of a module with a named procedure declaration, the DUP of
\* the compiled AssignAndReturnNode executes and duplicates the top of the
\* stack, and the SET after it stores that value under the target in the
\* current activation's locals and leaves the value on top of the stack.
C14_AssignAndReturn ==
    [][(input.family = "add" /\ input.named) =>
          /\ Fetch(DUP) =>
                /\ error' = ""
                /\ ctxs'[Cur].stack = Append(Self.stack, Top(Self.stack))
          /\ SetsAfterDup =>
                /\ error' = ""
                /\ SetKey \in DOMAIN ctxs'[Cur].localsx
                /\ ctxs'[Cur].localsx[SetKey] = Top(Self.stack)
                /\ Top(ctxs'[Cur].stack) = Top(Self.stack)]_vars

\* the Runnable object the INVOKE about to run calls, and the i-th argument
\* it passes: the values under the callee on the caller's stack, oldest first
CalleeRunnable == modules[Callee.module].constpool[Callee.index + 1]
Passed(i) == Self.stack[Len(Self.stack) - 1 - Argc + i]

\* C15: the activation an INVOKE pushes is a new context with an empty stack,
\* the instruction pointer at the start of the callee's bytecode and exactly the
\* parameters as locals, the i-th bound to the i-th argument; a SET changes the
\* locals of no other activation, and in the recursive program each activation
\* of f still reads, after the inner call, the x it has set itself.
C15_FreshActivation ==
    [][/\ Called =>
             LET new == ctxs'[Len(ctxs')] IN
             /\ Len(ctxs') = Len(ctxs) + 1
             /\ Top(executor_stack'[Len(executor_stack')]) = Len(ctxs')
             /\ new.stack = <<>>
             /\ new.bs = [arr |-> CalleeRunnable.bytecode, idx |-> 0]
             /\ DOMAIN new.localsx = {CStr(CalleeParams[i]) : i \in DOMAIN CalleeParams}
             /\ \A i \in DOMAIN CalleeParams :
                    (\A j \in DOMAIN CalleeParams : CalleeParams[j] = CalleeParams[i] => j <= i)
                        => new.localsx[CStr(CalleeParams[i])] = Passed(i)
       /\ Fetch(SET) =>
             \A i \in DOMAIN ctxs : i # Cur => ctxs'[i].localsx = ctxs[i].localsx
       /\ input.family = "recur" =>
             \A i \in DOMAIN ctxs' :
                 CStr(n_y) \in DOMAIN ctxs'[i].localsx =>
                     ctxs'[i].localsx[CStr(n_y)] = ctxs'[i].localsx[CStr(n_a)]]_vars

\* f is active twice at once, and the two activations hold different values
\* of x
C15_Witness ==
    /\ input.family = "recur"
    /\ Running
    /\ Len(Ex) = 3
    /\ ctxs[Ex[2]].bs.arr = ctxs[Ex[3]].bs.arr
    /\ CStr(n_x) \in DOMAIN ctxs[Ex[2]].localsx
    /\ CStr(n_x) \in DOMAIN ctxs[Ex[3]].localsx
    /\ ctxs[Ex[2]].localsx[CStr(n_x)] = Number(input.a)
    /\ ctxs[Ex[3]].localsx[CStr(n_x)] = Number(input.b)

\* where the loop of the compiled loop program starts and how long the code of
\* its body is: the prefix and the body compiled on their own
LoopStart == Len(visit_nodes(LoopPrefix(input), NewModule).code)
BodyLen == Len(visit_nodes(LoopBody(input), NewModule).code)
\* the position after the loop, and after the operand of its JMP_IF
LoopEnd == Len(mod.bytecode)
AfterJmpIf == LoopEnd - 5 - BodyLen
\* the signed 4-byte operand that ends at position pos
OffsetBefore(pos) == from_bytes_signed(Slice(mod.bytecode, pos - 4, 4))

\* C16: in the code of a compiled while loop the JMP_IF, taken relative to the
\* end of its operand, lands on the first byte after the back-jump, and the
\* back-jump, taken relative to the end of its operand, lands on the first byte
\* of the condition's code.
C16_JumpTargets ==
    (pc = "compiled" /\ input.family = "loop") =>
        /\ error = ""
        /\ AfterJmpIf - LoopStart >= 6
        /\ mod.bytecode[AfterJmpIf - 4] = JMP_IF
        /\ mod.bytecode[AfterJmpIf - 5] = LOGICNOT
        /\ mod.bytecode[LoopEnd - 4] = JMP
        /\ AfterJmpIf + OffsetBefore(AfterJmpIf) = LoopEnd
        /\ LoopEnd + OffsetBefore(LoopEnd) = LoopStart

\* a loop behind other code whose offsets do not fit one byte
C16_Witness ==
    /\ pc = "compiled"
    /\ input.family = "loop"
    /\ error = ""
    /\ LoopStart > 0
    /\ BodyLen > 256
    /\ AfterJmpIf - LoopStart > 30

\* C17: a RETURN executed on an empty operand stack raises nothing and ends the
\* activation with Nil, as StepOver does for exhausted bytecode: the activation
\* is popped, and Nil goes to the caller's stack or, from the last activation,
\* ends the executor.
C17_ReturnOnEmptyStack ==
    [][(Fetch(RETURN) /\ Self.stack = <<>>) =>
          /\ error' = ""
          /\ retval' = NIL
          /\ IF Len(Ex) > 1
             THEN /\ executor_stack' =
                        [executor_stack EXCEPT ![Len(executor_stack)] = Pop(Ex)]
                  /\ ctxs'[Top(Pop(Ex))].stack = Append(ctxs[Top(Pop(Ex))].stack, NIL)
             ELSE executor_stack' = Pop(executor_stack)]_vars

\* C18: ByteStream.varint on the bytes Encoder.varint wrote for i returns i,
\* without an exception, and stops right after the bytes written, in front
\* of what follows them in the stream.
C18_VarintRoundTrip ==
    (pc = "read" /\ input.family = "varint") =>
        /\ error = ""
        /\ out[1].val = input.a
        /\ out[1].idx = Len(stream) - Len(Trailer)
        /\ stream[1] = out[1].idx - 1

\* a negative integer that takes two bytes was written and read back
C18_Witness ==
    /\ pc = "read"
    /\ input.family = "varint"
    /\ input.a < -128
    /\ stream[1] = 2
    /\ out = <<[val |-> input.a, idx |-> 3]>>

=============================================================================
